---- MODULE Spec2Model ----
(***************************************************************************)
(* Model of errbot/backends/telegram_messenger.py: the polling loop of     *)
(* TelegramBackend.serve_once, its host callbacks, the stored update       *)
(* cursor and the provider's getUpdates.                                   *)
(*                                                                         *)
(* serve_once is modelled one source statement (or group of statements)    *)
(* per action, with pc the position of the single thread that runs it.     *)
(* The environment is: the provider (authentication, getUpdates), the      *)
(* handler (_handle_message / callback_message may raise) and the signal   *)
(* that raises KeyboardInterrupt at any statement of the try block of      *)
(* lines 218-232.  The host's storage (self[...]) and the host callbacks   *)
(* connect_callback / disconnect_callback are taken not to raise.          *)
(***************************************************************************)
EXTENDS Integers, Sequences, FiniteSets, TLC

\* ---- bounds of the model ----
MaxId == 2          \* update ids range over 0..MaxId
MaxBatch == 2       \* longest batch one getUpdates call returns
MaxFetches == 2     \* getUpdates calls per run of serve_once
MaxRuns == 2        \* runs of serve_once that share the storage
MaxLen == 3         \* longest textual identifier given to build_identifier

VARIABLES
    pc,               \* position of the thread in serve_once
    runs,             \* number of serve_once calls made by the host
    telegram,         \* self.telegram: "None" or "Bot"
    bot_identifier,   \* self.bot_identifier
    storage,          \* the host's key-value storage, self[...]
    offset,           \* the local variable offset of serve_once
    batch,            \* the list returned by the last getUpdates call
    idx,              \* index in batch of the update the for loop is at
    processed,        \* updates of batch whose loop body has completed
    failed,           \* indexes of batch whose _handle_message raised Exception
    called,           \* indexes of batch handed to callback_message
    delivered,        \* update id -> number of callback_message calls, all runs
    connectCalls,     \* connect_callback calls of this run
    disconnectCalls,  \* disconnect_callback calls of this run
    getUpdatesCalls,  \* getUpdates calls of this run
    raised,           \* the exception that left the try block of line 218
    result,           \* what serve_once returned to the host
    providerOrdered,  \* every batch getUpdates returned so far was ascending
    call              \* the last call of the host into the backend's other
                      \* methods, with what it returned or raised

vars == <<pc, runs, telegram, bot_identifier, storage, offset, batch, idx,
          processed, failed, called, delivered, connectCalls,
          disconnectCalls, getUpdatesCalls, raised, result, providerOrdered,
          call>>

\* the state of the backend and of serve_once: everything but the record of
\* the host's last call
backendVars == <<pc, runs, telegram, bot_identifier, storage, offset, batch,
                 idx, processed, failed, called, delivered, connectCalls,
                 disconnectCalls, getUpdatesCalls, raised, result,
                 providerOrdered>>

\* ---- data ----
Key == "_telegram_updates_offset"

Unbound == 0 - 1    \* the local offset before line 214 binds it

Ids == 0..MaxId

\* what an update carries: a message with a text, a message attribute
\* without a text (message.text is None, or message itself is None), or no
\* message attribute at all
Kinds == {"text", "notext", "nomessage"}

Updates == [update_id : Ids, kind : Kinds]

NoIdentity == [cls |-> "None", id |-> 0]

BotId == 1

\* TelegramPerson(id=me.id, ...) built from getMe
Me == [cls |-> "TelegramPerson", id |-> BotId]

NoException == [exc |-> "none", at |-> "none"]

\* the host has not called any method but serve_once yet
NoCall == [op |-> "none"]

\* positions inside the try block of lines 218-232
LoopPcs == {"fetch", "advance", "persist", "check", "handle"}

SeqsUpTo(S, n) == UNION {[1..k -> S] : k \in 0..n}

\* getUpdates(offset): the provider returns distinct updates whose id is at
\* least the requested offset; nothing in the code constrains their order
AnyOrderBatches(off) ==
    {b \in SeqsUpTo({u \in Updates : u.update_id >= off}, MaxBatch) :
        \A i, j \in 1..Len(b) : b[i].update_id = b[j].update_id => i = j}

\* the order in which the Bot API documents getUpdates to return updates:
\* strictly ascending ids within a batch
IsAscending(b) ==
    \A i \in 1..(Len(b) - 1) : b[i].update_id < b[i + 1].update_id

HasText(u) == u.kind = "text"

\* hasattr(update, 'message')
HasMessage(u) == u.kind # "nomessage"

\* the truth value the host's serve_forever reads from serve_once
Truthy(r) == r = "True"

Stored == IF Key \in DOMAIN storage THEN storage[Key] ELSE Unbound

\* ---- state after construction (__init__, lines 176-191) ----
Init ==
    /\ pc = "idle"
    /\ runs = 0
    /\ telegram = "None"
    /\ bot_identifier = NoIdentity
    /\ storage = << >>
    /\ offset = Unbound
    /\ batch = << >>
    /\ idx = 0
    /\ processed = 0
    /\ failed = {}
    /\ called = {}
    /\ delivered = [i \in Ids |-> 0]
    /\ connectCalls = 0
    /\ disconnectCalls = 0
    /\ getUpdatesCalls = 0
    /\ raised = NoException
    /\ result = "pending"
    /\ providerOrdered = TRUE
    /\ call = NoCall

\* ---- serve_once ----

\* the host calls serve_once (line 193): a new frame
ServeOnce ==
    /\ pc \in {"idle", "done"}
    /\ runs < MaxRuns
    /\ pc' = "connecting"
    /\ runs' = runs + 1
    /\ offset' = Unbound
    /\ batch' = << >>
    /\ idx' = 0
    /\ processed' = 0
    /\ failed' = {}
    /\ called' = {}
    /\ connectCalls' = 0
    /\ disconnectCalls' = 0
    /\ getUpdatesCalls' = 0
    /\ raised' = NoException
    /\ result' = "pending"
    /\ UNCHANGED <<telegram, bot_identifier, storage, delivered,
                   providerOrdered, call>>

\* lines 195-197: telegram.Bot(token) and getMe succeed
Authenticate ==
    /\ pc = "connecting"
    /\ telegram' = "Bot"
    /\ pc' = "identify"
    /\ UNCHANGED <<runs, bot_identifier, storage, offset, batch, idx,
                   processed, failed, called, delivered, connectCalls,
                   disconnectCalls, getUpdatesCalls, raised, result,
                   providerOrdered, call>>

\* variant of AuthenticateFails: the failure falls through to the finally
\* block of the polling loop
AuthenticateFailsDisconnects ==
    /\ pc = "connecting"
    /\ telegram' \in {telegram, "Bot"}
    /\ result' = "False"
    /\ pc' = "finally"
    /\ UNCHANGED <<runs, bot_identifier, storage, offset, batch, idx,
                   processed, failed, called, delivered, connectCalls,
                   disconnectCalls, getUpdatesCalls, raised,
                   providerOrdered, call>>

\* lines 198-200: TelegramError from telegram.Bot (self.telegram keeps its
\* value) or from getMe (self.telegram is already assigned): return False
AuthenticateFails ==
    /\ pc = "connecting"
    /\ telegram' \in {telegram, "Bot"}
    /\ result' = "False"
    /\ pc' = "done"
    /\ UNCHANGED <<runs, bot_identifier, storage, offset, batch, idx,
                   processed, failed, called, delivered, connectCalls,
                   disconnectCalls, getUpdatesCalls, raised,
                   providerOrdered, call>>

\* variant of StoreIdentity: connect_callback is reached with the identity
\* not yet stored
StoreIdentitySkipped ==
    /\ pc = "identify"
    /\ pc' = "connect"
    /\ UNCHANGED <<runs, telegram, bot_identifier, storage, offset, batch,
                   idx, processed, failed, called, delivered, connectCalls,
                   disconnectCalls, getUpdatesCalls, raised, result,
                   providerOrdered, call>>

\* lines 202-207: self.bot_identifier = TelegramPerson(...)
StoreIdentity ==
    /\ pc = "identify"
    /\ bot_identifier' = Me
    /\ pc' = "connect"
    /\ UNCHANGED <<runs, telegram, storage, offset, batch, idx, processed,
                   failed, called, delivered, connectCalls, disconnectCalls,
                   getUpdatesCalls, raised, result,
                   providerOrdered, call>>

\* lines 209-211: reset_reconnection_count(); connect_callback()
Connect ==
    /\ pc = "connect"
    /\ connectCalls' = connectCalls + 1
    /\ pc' = "load"
    /\ UNCHANGED <<runs, telegram, bot_identifier, storage, offset, batch,
                   idx, processed, failed, called, delivered,
                   disconnectCalls, getUpdatesCalls, raised, result,
                   providerOrdered, call>>

\* variant of LoadedOffset: the loop starts one below the stored cursor
LoadedOffsetOneBack == IF Key \in DOMAIN storage THEN storage[Key] - 1 ELSE 0

\* the value lines 213-216 bind to offset
LoadedOffset == IF Key \in DOMAIN storage THEN storage[Key] ELSE 0

\* variant of LoadOffset: the loop starts from 0 whatever is stored
LoadOffsetFromZero ==
    /\ pc = "load"
    /\ offset' = 0
    /\ pc' = "fetch"
    /\ UNCHANGED <<runs, telegram, bot_identifier, storage, batch, idx,
                   processed, failed, called, delivered, connectCalls,
                   disconnectCalls, getUpdatesCalls, raised, result,
                   providerOrdered, call>>

\* lines 213-216
LoadOffset ==
    /\ pc = "load"
    /\ offset' = LoadedOffset
    /\ pc' = "fetch"
    /\ UNCHANGED <<runs, telegram, bot_identifier, storage, batch, idx,
                   processed, failed, called, delivered, connectCalls,
                   disconnectCalls, getUpdatesCalls, raised, result,
                   providerOrdered, call>>

\* line 221: getUpdates(offset=offset, timeout=60) returns a batch; an empty
\* batch falls through line 232 to the next getUpdates
GetUpdates ==
    /\ pc = "fetch"
    /\ getUpdatesCalls < MaxFetches
    /\ \E b \in AnyOrderBatches(offset) :
          /\ batch' = b
          /\ idx' = IF b = << >> THEN 0 ELSE 1
          /\ pc' = IF b = << >> THEN "fetch" ELSE "advance"
          /\ providerOrdered' = (providerOrdered /\ IsAscending(b))
    /\ getUpdatesCalls' = getUpdatesCalls + 1
    /\ processed' = 0
    /\ failed' = {}
    /\ called' = {}
    /\ UNCHANGED <<runs, telegram, bot_identifier, storage, offset,
                   delivered, connectCalls, disconnectCalls, raised, result,
                   call>>

\* line 221 raises; lines 236-237 log it and fall through to finally
GetUpdatesFails ==
    /\ pc = "fetch"
    /\ getUpdatesCalls < MaxFetches
    /\ getUpdatesCalls' = getUpdatesCalls + 1
    /\ raised' = [exc |-> "TelegramError", at |-> "fetch"]
    /\ pc' = "finally"
    /\ UNCHANGED <<runs, telegram, bot_identifier, storage, offset, batch,
                   idx, processed, failed, called, delivered, connectCalls,
                   disconnectCalls, result,
                   providerOrdered, call>>

\* variant of NextOffset: the cursor is set to the update's own id
NextOffsetNoIncrement(u) == u.update_id

\* line 222: the value assigned to offset for update u
NextOffset(u) == u.update_id + 1

\* line 222
AdvanceOffset ==
    /\ pc = "advance"
    /\ offset' = NextOffset(batch[idx])
    /\ pc' = "persist"
    /\ UNCHANGED <<runs, telegram, bot_identifier, storage, batch, idx,
                   processed, failed, called, delivered, connectCalls,
                   disconnectCalls, getUpdatesCalls, raised, result,
                   providerOrdered, call>>

\* variant of Written: the update's id is stored, not the next offset
WrittenPrevious(v) == (Key :> (v - 1)) @@ storage

\* line 223: the storage after self['_telegram_updates_offset'] = v
Written(v) == (Key :> v) @@ storage

\* variant of PersistOffset: the cursor is not written before the dispatch
PersistOffsetSkipped ==
    /\ pc = "persist"
    /\ pc' = "check"
    /\ UNCHANGED <<runs, telegram, bot_identifier, storage, offset, batch,
                   idx, processed, failed, called, delivered, connectCalls,
                   disconnectCalls, getUpdatesCalls, raised, result,
                   providerOrdered, call>>

\* line 223
PersistOffset ==
    /\ pc = "persist"
    /\ storage' = Written(offset)
    /\ pc' = "check"
    /\ UNCHANGED <<runs, telegram, bot_identifier, offset, batch, idx,
                   processed, failed, called, delivered, connectCalls,
                   disconnectCalls, getUpdatesCalls, raised, result,
                   providerOrdered, call>>

\* the end of one iteration of the for loop of line 221: the next update
\* of the batch, or line 232 and the next getUpdates
NextIteration ==
    /\ processed' = processed + 1
    /\ IF idx < Len(batch)
          THEN idx' = idx + 1 /\ pc' = "advance"
          ELSE idx' = idx /\ pc' = "fetch"

\* lines 225-227: an update without a message is skipped
CheckMessage ==
    /\ pc = "check"
    /\ IF HasMessage(batch[idx])
          THEN pc' = "handle" /\ UNCHANGED <<idx, processed>>
          ELSE NextIteration
    /\ UNCHANGED <<runs, telegram, bot_identifier, storage, offset, batch,
                   failed, called, delivered, connectCalls, disconnectCalls,
                   getUpdatesCalls, raised, result,
                   providerOrdered, call>>

\* callback_message(message_instance) is called for the update at idx
Dispatched ==
    /\ delivered' = [delivered EXCEPT ![batch[idx].update_id] = @ + 1]
    /\ called' = called \cup {idx}

\* variant of HandleDiscard: a message without text is handed to the host
HandleDiscardDispatches ==
    /\ pc = "handle"
    /\ batch[idx].kind = "notext"
    /\ Dispatched
    /\ NextIteration
    /\ UNCHANGED <<runs, telegram, bot_identifier, storage, offset, batch,
                   failed, connectCalls, disconnectCalls, getUpdatesCalls,
                   raised, result,
                   providerOrdered, call>>

\* lines 250-252: message.text is None, the message is ignored
HandleDiscard ==
    /\ pc = "handle"
    /\ batch[idx].kind = "notext"
    /\ NextIteration
    /\ UNCHANGED <<runs, telegram, bot_identifier, storage, offset, batch,
                   failed, called, delivered, connectCalls, disconnectCalls,
                   getUpdatesCalls, raised, result,
                   providerOrdered, call>>

\* lines 254-273: the message is built and callback_message returns
HandleDispatch ==
    /\ pc = "handle"
    /\ HasText(batch[idx])
    /\ Dispatched
    /\ NextIteration
    /\ UNCHANGED <<runs, telegram, bot_identifier, storage, offset, batch,
                   failed, connectCalls, disconnectCalls, getUpdatesCalls,
                   raised, result,
                   providerOrdered, call>>

\* variant of HandleNormalizeFails: without the try of line 228 the
\* exception reaches the bare except of line 236 and ends the loop
HandleNormalizeFailsAborts ==
    /\ pc = "handle"
    /\ HasText(batch[idx])
    /\ failed' = failed \cup {idx}
    /\ raised' = [exc |-> "Exception", at |-> "handle"]
    /\ pc' = "finally"
    /\ UNCHANGED <<runs, telegram, bot_identifier, storage, offset, batch,
                   idx, processed, called, delivered, connectCalls,
                   disconnectCalls, getUpdatesCalls, result,
                   providerOrdered, call>>

\* line 250 when update.message is itself None: message.text raises
\* AttributeError and lines 230-231 log it
HandleMessageNone ==
    /\ pc = "handle"
    /\ batch[idx].kind = "notext"
    /\ failed' = failed \cup {idx}
    /\ NextIteration
    /\ UNCHANGED <<runs, telegram, bot_identifier, storage, offset, batch,
                   called, delivered, connectCalls, disconnectCalls,
                   getUpdatesCalls, raised, result, providerOrdered,
                   call>>

\* lines 254-272 raise an Exception before callback_message is reached
\* (build_message, a missing from_user or chat); lines 230-231 log it
HandleNormalizeFails ==
    /\ pc = "handle"
    /\ HasText(batch[idx])
    /\ failed' = failed \cup {idx}
    /\ NextIteration
    /\ UNCHANGED <<runs, telegram, bot_identifier, storage, offset, batch,
                   called, delivered, connectCalls, disconnectCalls,
                   getUpdatesCalls, raised, result,
                   providerOrdered, call>>

\* variant of HandleDispatchFails: the exception of callback_message
\* reaches the bare except of line 236 and ends the loop
HandleDispatchFailsEndsLoop ==
    /\ pc = "handle"
    /\ HasText(batch[idx])
    /\ Dispatched
    /\ failed' = failed \cup {idx}
    /\ raised' = [exc |-> "Exception", at |-> "callback_message"]
    /\ pc' = "finally"
    /\ UNCHANGED <<runs, telegram, bot_identifier, storage, offset, batch,
                   idx, processed, connectCalls, disconnectCalls,
                   getUpdatesCalls, result, providerOrdered, call>>

\* line 273: callback_message is called and raises an Exception; lines
\* 230-231 log it
HandleDispatchFails ==
    /\ pc = "handle"
    /\ HasText(batch[idx])
    /\ Dispatched
    /\ failed' = failed \cup {idx}
    /\ NextIteration
    /\ UNCHANGED <<runs, telegram, bot_identifier, storage, offset, batch,
                   connectCalls, disconnectCalls, getUpdatesCalls, raised,
                   result,
                   providerOrdered, call>>

\* variant of Interrupt: the interrupt returns at once, with no finally
InterruptNoFinally ==
    /\ pc \in LoopPcs
    /\ raised' = [exc |-> "KeyboardInterrupt", at |-> pc]
    /\ result' = "True"
    /\ pc' = "done"
    /\ UNCHANGED <<runs, telegram, bot_identifier, storage, offset, batch,
                   idx, processed, failed, called, delivered, connectCalls,
                   disconnectCalls, getUpdatesCalls,
                   providerOrdered, call>>

\* KeyboardInterrupt raised at a statement of the try block; it is not an
\* Exception, so line 230 does not catch it: lines 233-235
Interrupt ==
    /\ pc \in LoopPcs
    /\ raised' = [exc |-> "KeyboardInterrupt", at |-> pc]
    /\ pc' = "finally"
    /\ UNCHANGED <<runs, telegram, bot_identifier, storage, offset, batch,
                   idx, processed, failed, called, delivered, connectCalls,
                   disconnectCalls, getUpdatesCalls, result,
                   providerOrdered, call>>

\* variant of InterruptInCallback: the interrupt is only noted and the
\* for loop goes on with the rest of the batch
InterruptInCallbackDeferred ==
    /\ pc = "handle"
    /\ HasText(batch[idx])
    /\ Dispatched
    /\ raised' = [exc |-> "KeyboardInterrupt", at |-> "callback_message"]
    /\ NextIteration
    /\ UNCHANGED <<runs, telegram, bot_identifier, storage, offset, batch,
                   failed, connectCalls, disconnectCalls, getUpdatesCalls,
                   result,
                   providerOrdered, call>>

\* KeyboardInterrupt raised inside callback_message (line 273), after the
\* host has received the message: lines 233-235
InterruptInCallback ==
    /\ pc = "handle"
    /\ HasText(batch[idx])
    /\ Dispatched
    /\ raised' = [exc |-> "KeyboardInterrupt", at |-> "callback_message"]
    /\ pc' = "finally"
    /\ UNCHANGED <<runs, telegram, bot_identifier, storage, offset, batch,
                   idx, processed, failed, connectCalls, disconnectCalls,
                   getUpdatesCalls, result,
                   providerOrdered, call>>

\* variant of ReturnValue: every exit of the loop returns True
ReturnValueAlwaysTrue(e) == "True"

\* what serve_once returns once the finally block is done: True of line
\* 235, or None when line 237 falls off the end of the function
ReturnValue(e) == IF e.exc = "KeyboardInterrupt" THEN "True" ELSE "None"

\* lines 238-240, then the return
Disconnect ==
    /\ pc = "finally"
    /\ disconnectCalls' = disconnectCalls + 1
    /\ result' = ReturnValue(raised)
    /\ pc' = "done"
    /\ UNCHANGED <<runs, telegram, bot_identifier, storage, offset, batch,
                   idx, processed, failed, called, delivered, connectCalls,
                   getUpdatesCalls, raised,
                   providerOrdered, call>>

Next ==
    \/ ServeOnce
    \/ Authenticate
    \/ AuthenticateFails
    \/ StoreIdentity
    \/ Connect
    \/ LoadOffset
    \/ GetUpdates
    \/ GetUpdatesFails
    \/ AdvanceOffset
    \/ PersistOffset
    \/ CheckMessage
    \/ HandleDiscard
    \/ HandleMessageNone
    \/ HandleDispatch
    \/ HandleNormalizeFails
    \/ HandleDispatchFails
    \/ Interrupt
    \/ InterruptInCallback
    \/ Disconnect

Spec == Init /\ [][Next]_vars

TypeOK ==
    /\ pc \in {"idle", "connecting", "identify", "connect", "load", "finally",
               "done"} \cup LoopPcs
    /\ runs \in 0..MaxRuns
    /\ offset \in {Unbound} \cup 0..(MaxId + 1)
    /\ Stored \in {Unbound} \cup 1..(MaxId + 1)
    /\ idx \in 0..Len(batch)
    /\ processed \in 0..Len(batch)
    /\ result \in {"pending", "True", "False", "None"}

\* ---- build_identifier (lines 291-303) and _is_numeric (lines 338-345) ----

\* the characters of the textual identifiers: digits, signs, whitespace, the
\* underscore and a letter
Chars == {"0", "1", "-", "+", " ", "_", "a"}

Digits == {"0", "1"}

Whitespace == {" "}

Strings == SeqsUpTo(Chars, MaxLen)

DigitValue(c) == IF c = "1" THEN 1 ELSE 0

RECURSIVE LStrip(_)
LStrip(s) ==
    IF s # << >> /\ Head(s) \in Whitespace THEN LStrip(Tail(s)) ELSE s

RECURSIVE RStrip(_)
RStrip(s) ==
    IF s # << >> /\ s[Len(s)] \in Whitespace
       THEN RStrip(SubSeq(s, 1, Len(s) - 1))
       ELSE s

\* str.strip() of line 296
Strip(s) == RStrip(LStrip(s))

\* s without the sign int() accepts in front of the digits
Unsigned(s) ==
    IF s # << >> /\ Head(s) \in {"+", "-"} THEN Tail(s) ELSE s

\* the digit part int() accepts in base 10: digits, with single underscores
\* allowed between two digits
IsIntDigits(d) ==
    /\ d # << >>
    /\ \A i \in 1..Len(d) : d[i] \in Digits \cup {"_"}
    /\ d[1] \in Digits
    /\ d[Len(d)] \in Digits
    /\ \A i \in 1..(Len(d) - 1) : ~(d[i] = "_" /\ d[i + 1] = "_")

\* int(s) does not raise ValueError: surrounding whitespace, an optional
\* sign, then the digit part
IntAccepts(s) == IsIntDigits(Unsigned(Strip(s)))

\* the number the digit part d denotes, underscores skipped
RECURSIVE Magnitude(_)
Magnitude(d) ==
    IF d = << >>
       THEN 0
       ELSE LET front == SubSeq(d, 1, Len(d) - 1)
                last == d[Len(d)]
            IN  IF last = "_"
                   THEN Magnitude(front)
                   ELSE 10 * Magnitude(front) + DigitValue(last)

\* int(s), for an s that int() accepts
IntValue(s) ==
    LET t == Strip(s)
    IN  IF Head(t) = "-"
           THEN 0 - Magnitude(Unsigned(t))
           ELSE Magnitude(Unsigned(t))

\* _is_numeric (lines 338-345): int(input_) does not raise ValueError
is_numeric(input_) == IntAccepts(input_)

ValueError == [cls |-> "ValueError", id |-> 0]

\* Python's None, where a name, a title or a text is absent
None == "None"

\* TelegramPerson(id, first_name, last_name, username), lines 74-79
TelegramPerson(id, first_name, last_name, username) ==
    [cls |-> "TelegramPerson", id |-> id, first_name |-> first_name,
     last_name |-> last_name, username |-> username]

\* TelegramRoom(id, title), lines 112-115
TelegramRoom(id, title) == [cls |-> "TelegramRoom", id |-> id, title |-> title]

\* TelegramMUCOccupant(id, room, first_name, last_name, username), lines
\* 158-164
TelegramMUCOccupant(id, room, first_name, last_name, username) ==
    [cls |-> "TelegramMUCOccupant", id |-> id, room |-> room,
     first_name |-> first_name, last_name |-> last_name,
     username |-> username]

\* build_identifier (lines 291-303): what it returns, or the ValueError
build_identifier(txtrep) ==
    LET id_ == Strip(txtrep)
    IN  IF ~is_numeric(id_)
           THEN ValueError
           ELSE IF IntValue(id_) > 0
                   THEN TelegramPerson(IntValue(id_), None, None, None)
                   ELSE TelegramRoom(IntValue(id_), None)

\* the host calls build_identifier with a text of S
BuildIdentifier(S) ==
    /\ \E t \in S :
          call' = [op |-> "build_identifier", txtrep |-> t,
                   out |-> build_identifier(t)]
    /\ UNCHANGED backendVars

\* build_identifier applied to every text up to MaxLen characters
NextIdentifier == BuildIdentifier(Strings)

SpecIdentifier == Init /\ [][NextIdentifier]_vars

\* the text is an optionally signed run of decimal digits
IsSignedDecimal(s) ==
    /\ Unsigned(s) # << >>
    /\ \A i \in 1..Len(Unsigned(s)) : Unsigned(s)[i] \in Digits

\* the integer an optionally signed run of decimal digits denotes
DecimalValue(s) ==
    IF Head(s) = "-" THEN 0 - Magnitude(Unsigned(s)) ELSE Magnitude(Unsigned(s))

\* C11: build_identifier trims the text; if the remainder is an optionally
\* signed decimal integer n it returns a TelegramPerson with id n when n > 0
\* and a TelegramRoom with id n when n <= 0; every other text is rejected
\* with a ValueError.
C11_IdentifierParsing ==
    call.op = "build_identifier" =>
        LET t == Strip(call.txtrep)
        IN  IF IsSignedDecimal(t)
               THEN /\ call.out.id = DecimalValue(t)
                    /\ call.out.cls = IF DecimalValue(t) > 0
                                         THEN "TelegramPerson"
                                         ELSE "TelegramRoom"
               ELSE call.out = ValueError

\* ---- _handle_message (lines 242-273) ----

\* the users a message comes from
Users ==
    [id : {2, 3}, first_name : {"Ann"}, last_name : {None, "Lee"},
     username : {"ann"}]

\* message.chat: a telegram.user.User in a direct chat, a group chat
\* otherwise
Chats == [type : {"User", "GroupChat"}, id : {2, 0 - 5}, title : {None, "ops"}]

\* message.text
Texts == {None, "hi", "!help", "yo"}

\* the messages an update carries
Messages == [text : Texts, chat : Chats, from_user : Users]

\* variant of handle_message: in a group chat the occupant's room is built
\* without the chat's title, so it is not the room the message is sent to
handle_messageOtherRoom(message, bot) ==
    IF message.text = None
       THEN << >>
       ELSE IF message.chat.type = "User"
               THEN << [body |-> message.text,
                        frm |-> TelegramPerson(message.from_user.id,
                                               message.from_user.first_name,
                                               message.from_user.last_name,
                                               message.from_user.username),
                        to |-> bot] >>
               ELSE << [body |-> message.text,
                        frm |-> TelegramMUCOccupant(
                                    message.from_user.id,
                                    TelegramRoom(message.chat.id, None),
                                    message.from_user.first_name,
                                    message.from_user.last_name,
                                    message.from_user.username),
                        to |-> TelegramRoom(message.chat.id,
                                            message.chat.title)] >>

\* _handle_message (lines 242-273): the messages it hands to
\* callback_message, for a message and the bot's stored identity
handle_message(message, bot) ==
    IF message.text = None
       THEN << >>
       ELSE IF message.chat.type = "User"
               THEN << [body |-> message.text,
                        frm |-> TelegramPerson(message.from_user.id,
                                               message.from_user.first_name,
                                               message.from_user.last_name,
                                               message.from_user.username),
                        to |-> bot] >>
               ELSE LET room == TelegramRoom(message.chat.id,
                                             message.chat.title)
                    IN  << [body |-> message.text,
                            frm |-> TelegramMUCOccupant(
                                        message.from_user.id, room,
                                        message.from_user.first_name,
                                        message.from_user.last_name,
                                        message.from_user.username),
                            to |-> room] >>

\* line 229: serve_once, connected and polling, hands the message of an
\* update to _handle_message
HandleMessage ==
    /\ pc = "fetch"
    /\ \E m \in Messages :
          call' = [op |-> "_handle_message", message |-> m,
                   out |-> handle_message(m, bot_identifier)]
    /\ UNCHANGED backendVars

\* the connection of serve_once, then _handle_message applied to every
\* message
NextMessages ==
    \/ ServeOnce
    \/ Authenticate
    \/ AuthenticateFails
    \/ StoreIdentity
    \/ Connect
    \/ LoadOffset
    \/ HandleMessage

SpecMessages == Init /\ [][NextMessages]_vars

\* C12: _handle_message of a text message hands exactly one message to
\* callback_message; in a direct chat its sender is a TelegramPerson with the
\* user's fields and its recipient the bot's identity stored at connect
\* time; in any other chat its recipient is a TelegramRoom with the chat's
\* id and title and its sender a TelegramMUCOccupant with the user's id
\* whose room is that same TelegramRoom.
C12_Normalization ==
    (call.op = "_handle_message" /\ call.message.text # None) =>
        /\ Len(call.out) = 1
        /\ call.out[1].body = call.message.text
        /\ LET m == call.message
               msg == call.out[1]
           IN  IF m.chat.type = "User"
                  THEN /\ msg.frm.cls = "TelegramPerson"
                       /\ msg.frm.id = m.from_user.id
                       /\ msg.frm.first_name = m.from_user.first_name
                       /\ msg.frm.last_name = m.from_user.last_name
                       /\ msg.frm.username = m.from_user.username
                       /\ msg.to = Me
                       /\ msg.to = bot_identifier
                  ELSE /\ msg.to.cls = "TelegramRoom"
                       /\ msg.to.id = m.chat.id
                       /\ msg.to.title = m.chat.title
                       /\ msg.frm.cls = "TelegramMUCOccupant"
                       /\ msg.frm.id = m.from_user.id
                       /\ msg.frm.room = msg.to

\* a group message has been normalized in the second run of serve_once
C12_Witness ==
    /\ call.op = "_handle_message"
    /\ runs = 2
    /\ call.message.chat.type = "GroupChat"
    /\ call.message.chat.title = "ops"
    /\ Len(call.out) = 1
    /\ call.out[1].to = TelegramRoom(0 - 5, "ops")

\* ---- room operations (lines 126-155, 318-332) ----

\* the first run of serve_once, which the host's other calls interleave with
ServeFirst == runs = 0 /\ ServeOnce

\* the steps of serve_once after its start
Serving ==
    \/ Authenticate
    \/ AuthenticateFails
    \/ StoreIdentity
    \/ Connect
    \/ LoadOffset
    \/ GetUpdates
    \/ GetUpdatesFails
    \/ AdvanceOffset
    \/ PersistOffset
    \/ CheckMessage
    \/ HandleDiscard
    \/ HandleMessageNone
    \/ HandleDispatch
    \/ HandleNormalizeFails
    \/ HandleDispatchFails
    \/ Interrupt
    \/ InterruptInCallback
    \/ Disconnect

\* the room the operations are called on
SampleRoom == TelegramRoom(0 - 5, "ops")

\* raise RoomsNotSupportedError(): the operation ends by raising, having
\* assigned nothing
RaiseRoomsNotSupported(op, room) ==
    /\ call' = [op |-> op, room |-> room, roomAfter |-> room,
                raised |-> "RoomsNotSupportedError"]
    /\ UNCHANGED backendVars

\* TelegramRoom.join, line 126
RoomJoin == RaiseRoomsNotSupported("join", SampleRoom)

\* TelegramRoom.create, line 129
RoomCreate == RaiseRoomsNotSupported("create", SampleRoom)

\* variant of RoomLeave: leave returns without raising
RoomLeaveSilently ==
    /\ call' = [op |-> "leave", room |-> SampleRoom, roomAfter |-> SampleRoom,
                raised |-> "none"]
    /\ UNCHANGED backendVars

\* TelegramRoom.leave, line 132
RoomLeave == RaiseRoomsNotSupported("leave", SampleRoom)

\* TelegramRoom.destroy, line 135
RoomDestroy == RaiseRoomsNotSupported("destroy", SampleRoom)

\* TelegramRoom.topic, line 147
RoomTopic == RaiseRoomsNotSupported("topic", SampleRoom)

\* TelegramRoom.occupants, line 151
RoomOccupants == RaiseRoomsNotSupported("occupants", SampleRoom)

\* TelegramRoom.invite, line 154
RoomInvite == RaiseRoomsNotSupported("invite", SampleRoom)

\* TelegramBackend.query_room, lines 318-324
QueryRoom == RaiseRoomsNotSupported("query_room", SampleRoom)

\* TelegramBackend.rooms, lines 326-332
Rooms == RaiseRoomsNotSupported("rooms", SampleRoom)

NextRooms ==
    \/ ServeFirst
    \/ Serving
    \/ RoomJoin
    \/ RoomCreate
    \/ RoomLeave
    \/ RoomDestroy
    \/ RoomTopic
    \/ RoomOccupants
    \/ RoomInvite
    \/ QueryRoom
    \/ Rooms

SpecRooms == Init /\ [][NextRooms]_vars

\* the room-lifecycle operations
RoomOperations ==
    {"join", "create", "leave", "destroy", "topic", "occupants", "invite",
     "rooms", "query_room"}

\* C13: every call of a room-lifecycle operation (TelegramRoom.join, create,
\* leave, destroy, topic, occupants, invite, TelegramBackend.rooms and
\* query_room), in every state of the backend, raises
\* RoomsNotSupportedError and leaves the room object, the backend's state
\* and the stored cursor unchanged.
C13_RoomsNotSupported ==
    [][(call' # call /\ call'.op \in RoomOperations) =>
          /\ call'.raised = "RoomsNotSupportedError"
          /\ call'.roomAfter = call'.room
          /\ storage' = storage
          /\ offset' = offset
          /\ UNCHANGED backendVars]_vars

\* a room has been asked to leave while a batch was being handled, with a
\* cursor stored
C13_Witness ==
    /\ call.op = "leave"
    /\ pc = "handle"
    /\ Stored # Unbound

\* ---- the host's calls during serve_once (lines 275-312) ----

\* the messages the host sends
Outgoing ==
    [body : {"**hi**"}, to : {TelegramPerson(2, None, None, None), SampleRoom}]

\* line 277: md_converter.convert(body), the body rendered as plain text
Convert(body) == <<"text", body>>

\* lines 279, 285: telegram.sendMessage(mess.to.id, body) returns, and so
\* does send_message
SendMessage ==
    /\ telegram = "Bot"
    /\ \E mess \in Outgoing :
          call' = [op |-> "send_message", mess |-> mess,
                   attempts |-> << [chat_id |-> mess.to.id,
                                    text |-> Convert(mess.body)] >>,
                   failure |-> "none", raised |-> "none"]
    /\ UNCHANGED backendVars

\* variant of SendMessageFails: the failure is logged and not raised again
SendMessageFailsSwallowed ==
    /\ \E mess \in Outgoing :
          call' = [op |-> "send_message", mess |-> mess,
                   attempts |-> IF telegram = "Bot"
                                   THEN << [chat_id |-> mess.to.id,
                                            text |-> Convert(mess.body)] >>
                                   ELSE << >>,
                   failure |-> IF telegram = "Bot" THEN "TelegramError"
                                                   ELSE "AttributeError",
                   raised |-> "none"]
    /\ UNCHANGED backendVars

\* lines 279-285: sendMessage raises (the provider fails, or self.telegram is
\* still None and has no sendMessage); the exception is logged and raised
\* again
SendMessageFails ==
    /\ \E mess \in Outgoing :
          LET failure == IF telegram = "Bot" THEN "TelegramError"
                                             ELSE "AttributeError"
          IN  call' = [op |-> "send_message", mess |-> mess,
                       attempts |-> IF telegram = "Bot"
                                       THEN << [chat_id |-> mess.to.id,
                                                text |-> Convert(mess.body)] >>
                                       ELSE << >>,
                       failure |-> failure, raised |-> failure]
    /\ UNCHANGED backendVars

\* runs of serve_once that connect and whose getUpdates fails, with
\* send_message called at any moment of them
NextSend ==
    \/ ServeOnce
    \/ Authenticate
    \/ AuthenticateFails
    \/ StoreIdentity
    \/ Connect
    \/ LoadOffset
    \/ GetUpdatesFails
    \/ Disconnect
    \/ SendMessage
    \/ SendMessageFails

SpecSend == Init /\ [][NextSend]_vars

\* the presence statuses of the host
Statuses == {"online", "away"}

\* variant of ChangePresence: the status is kept in the backend's storage
ChangePresenceStored ==
    /\ \E status \in Statuses :
          /\ call' = [op |-> "change_presence", status |-> status]
          /\ storage' = ("presence" :> status) @@ storage
    /\ UNCHANGED <<pc, runs, telegram, bot_identifier, offset, batch, idx,
                   processed, failed, called, delivered, connectCalls,
                   disconnectCalls, getUpdatesCalls, raised, result,
                   providerOrdered>>

\* lines 287-289: change_presence is `pass`
ChangePresence ==
    /\ \E status \in Statuses :
          call' = [op |-> "change_presence", status |-> status]
    /\ UNCHANGED backendVars

\* the texts the host builds identifiers from
SampleTexts == {<<"1">>, <<"-", "1">>, <<"a">>}

\* the messages the host replies to: one of a direct chat, one of a group
Incoming ==
    {handle_message([text |-> "hi", chat |-> c,
                     from_user |-> [id |-> 2, first_name |-> "Ann",
                                    last_name |-> None, username |-> "ann"]],
                    Me)[1] :
        c \in {[type |-> "User", id |-> 2, title |-> None],
               [type |-> "GroupChat", id |-> 0 - 5, title |-> "ops"]}}

\* Message.is_direct, read at line 311: the recipient is not a room
is_direct(mess) == mess.to.cls # "TelegramRoom"

\* lines 305-312
build_reply(mess, text, private, bot) ==
    [body |-> text,
     frm |-> bot,
     to |-> IF private
               THEN mess.frm
               ELSE IF is_direct(mess) THEN mess.frm ELSE mess.to]

\* the host calls build_reply
BuildReply ==
    /\ \E mess \in Incoming, private \in BOOLEAN :
          call' = [op |-> "build_reply", mess |-> mess, private |-> private,
                   out |-> build_reply(mess, "ok", private, bot_identifier)]
    /\ UNCHANGED backendVars

NextHost ==
    \/ ServeFirst
    \/ Serving
    \/ SendMessage
    \/ SendMessageFails
    \/ ChangePresence
    \/ BuildIdentifier(SampleTexts)
    \/ BuildReply

SpecHost == Init /\ [][NextHost]_vars

\* C14: send_message transmits the rendered body to the recipient's id;
\* when sendMessage fails, send_message raises that same failure to its
\* caller, and the transmission is attempted at most once.
C14_SendPropagatesFailure ==
    call.op = "send_message" =>
        /\ Len(call.attempts) <= 1
        /\ \A i \in 1..Len(call.attempts) :
              /\ call.attempts[i].chat_id = call.mess.to.id
              /\ call.attempts[i].text = Convert(call.mess.body)
        /\ call.failure = "none" => Len(call.attempts) = 1
        /\ call.raised = call.failure

\* the provider has refused a message to the room once serve_once had
\* connected
C14_Witness ==
    /\ call.op = "send_message"
    /\ call.failure = "TelegramError"
    /\ call.raised = "TelegramError"
    /\ call.mess.to = SampleRoom
    /\ Len(call.attempts) = 1
    /\ pc = "fetch"

\* the calls of the host that are no part of the polling loop
HostOperations ==
    {"send_message", "change_presence", "build_identifier", "build_reply"}

\* C15: only the polling loop of serve_once writes the cursor. Every call of
\* send_message (succeeding or failing), change_presence, build_identifier
\* and build_reply, at any point of the polling loop, leaves the in-memory
\* cursor and the stored cursor unchanged, and change_presence changes no
\* state of the backend at all; the storage is written only by the loop's
\* own step at line 223.
C15_CursorSingleWriter ==
    [][/\ (call' # call /\ call'.op \in HostOperations) =>
              /\ offset' = offset
              /\ storage' = storage
              /\ call'.op = "change_presence" => UNCHANGED backendVars
       /\ storage' # storage => (pc = "persist" /\ call' = call)]_vars

\* a presence change has come between line 222 and line 223, when the
\* in-memory cursor is ahead of the stored one
C15_Witness ==
    /\ call.op = "change_presence"
    /\ pc = "persist"
    /\ offset = 2
    /\ Stored = 1

\* ---- properties of the polling loop ----

\* the for loop of line 221 has gone through the whole of a non-empty batch
BatchIterated == pc = "fetch" /\ batch # << >>

\* C1: once the for loop has iterated over a fetched batch u1..un, the value
\* stored under '_telegram_updates_offset' is un + 1 (and so is the local
\* offset), whichever updates of the batch raised in _handle_message.
C1_CursorAfterBatch ==
    BatchIterated =>
        /\ Stored = batch[Len(batch)].update_id + 1
        /\ offset = Stored

\* a two-update batch with a gap between its ids, one of which raised
C1_Witness ==
    /\ BatchIterated
    /\ Len(batch) = 2
    /\ batch[2].update_id > batch[1].update_id + 1
    /\ failed # {}
    /\ Stored = batch[2].update_id + 1

\* C2: a run that entered the polling loop and left it, by interrupt or by
\* an error of getUpdates, has called disconnect_callback exactly once when
\* it returns; disconnect_callback is never called while the loop runs, never
\* twice, and no callback_message follows it in the run.
C2_DisconnectOnce ==
    [][ /\ (pc' = "done" /\ raised'.exc # "none") => disconnectCalls' = 1
        /\ disconnectCalls' <= 1
        /\ pc' \in LoopPcs => disconnectCalls' = 0
        /\ delivered' # delivered => disconnectCalls = 0 /\ disconnectCalls' = 0
      ]_vars

\* a run interrupted inside callback_message has returned after one
\* disconnect_callback
C2_Witness ==
    /\ pc = "done"
    /\ raised = [exc |-> "KeyboardInterrupt", at |-> "callback_message"]
    /\ called # {}
    /\ disconnectCalls = 1

\* C3: an interrupt during polling makes serve_once return a true value
\* (clean shutdown); an error of getUpdates makes it return a false value
\* (failure), and no getUpdates call follows the failed one in that run.
C3_ResultByCause ==
    [][ /\ (pc' = "done" /\ raised'.exc = "KeyboardInterrupt")
              => Truthy(result')
        /\ (pc' = "done" /\ raised'.exc = "TelegramError")
              => result' = "None" /\ ~Truthy(result')
        /\ (raised.exc = "TelegramError" /\ runs' = runs)
              => /\ getUpdatesCalls' = getUpdatesCalls
                 /\ pc' \in {"finally", "done"}
      ]_vars

\* a run ended by an error of its second getUpdates call has returned None
C3_Witness ==
    /\ pc = "done"
    /\ raised.exc = "TelegramError"
    /\ getUpdatesCalls = 2
    /\ result = "None"

\* C4: when _handle_message raises for an update, the exception ends neither
\* the batch nor the loop: the loop goes to the next update of the batch, or
\* to the next getUpdates after the last one; disconnect_callback is not
\* called; every update of an iterated batch has been processed, the text
\* ones with their dispatch attempted.
C4_FailureIsolated ==
    [][ /\ (failed' # failed /\ failed \subseteq failed')
              => /\ processed' = processed + 1
                 /\ raised' = NoException
                 /\ disconnectCalls' = disconnectCalls
                 /\ idx < Len(batch) => pc' = "advance" /\ idx' = idx + 1
                 /\ idx = Len(batch) => pc' = "fetch"
        /\ (pc' = "finally" /\ pc # "finally")
              => raised'.exc \in {"KeyboardInterrupt", "TelegramError"}
        /\ (pc' = "fetch" /\ batch' # << >>) => processed' = Len(batch')
        /\ \A i \in 1..processed' :
              HasText(batch'[i]) => i \in called' \cup failed'
      ]_vars

\* the first update of a batch raised and the second was dispatched
C4_Witness ==
    /\ BatchIterated
    /\ Len(batch) = 2
    /\ 1 \in failed
    /\ 2 \in called
    /\ 2 \notin failed
    /\ disconnectCalls = 0

\* C5: the updates of a batch are processed one at a time in arrival order;
\* for each, the cursor is set to update_id + 1 and stored before the message
\* is checked and handed to callback_message, so no update is dispatched
\* while the stored cursor is at most its id.
C5_PersistBeforeDispatch ==
    [][ /\ pc \in {"check", "handle"}
              => /\ Stored = batch[idx].update_id + 1
                 /\ offset = Stored
        /\ \A i \in Ids :
              delivered'[i] # delivered[i]
                 => /\ pc = "handle"
                    /\ i = batch[idx].update_id
                    /\ Stored > i
                    /\ delivered'[i] = delivered[i] + 1
        /\ (idx' # idx /\ batch' = batch) => idx' = idx + 1 /\ processed' = idx
        /\ pc \in {"advance", "persist", "check", "handle"}
              => processed = idx - 1
      ]_vars

\* both updates of a batch have been dispatched, the second after the first
C5_Witness ==
    /\ BatchIterated
    /\ called = {1, 2}
    /\ Stored = batch[2].update_id + 1

\* a KeyboardInterrupt was raised while an update was being dispatched
InterruptedInDispatch ==
    /\ raised.exc = "KeyboardInterrupt"
    /\ raised.at \in {"handle", "callback_message"}

\* C6, as the specification states it: an interrupt delivered while an
\* update is being dispatched does not cut the batch short, so the loop is
\* left with no update of the fetched batch after the interrupted one.
C6_InterruptObservedBetweenFetches ==
    InterruptedInDispatch => idx = Len(batch)

\* C6, as the code has it: a KeyboardInterrupt delivered while an update is
\* being dispatched ends the for loop at once: the updates after it in the
\* batch get neither their cursor advance nor their dispatch in that run,
\* the stored cursor stays at the interrupted update's id + 1, and the run
\* goes to the disconnect and returns True.
C6_InterruptCutsBatch ==
    InterruptedInDispatch =>
        /\ pc \in {"finally", "done"}
        /\ processed = idx - 1
        /\ Stored = batch[idx].update_id + 1
        /\ \A i \in called \cup failed : i <= idx
        /\ pc = "done" => result = "True" /\ disconnectCalls = 1

\* a run interrupted inside callback_message for the first of two updates
\* has returned with the second one untouched
C6_Witness ==
    /\ InterruptedInDispatch
    /\ pc = "done"
    /\ raised.at = "callback_message"
    /\ Len(batch) = 2
    /\ idx = 1
    /\ called = {1}

\* C7: when authentication fails serve_once returns False at once:
\* connect_callback, getUpdates, callback_message and disconnect_callback
\* are not called in that run, the stored cursor is left as it was and the
\* local offset is never bound.
C7_AuthFailureDoesNothing ==
    [][ result' = "False"
           => /\ pc' = "done"
              /\ connectCalls' = 0
              /\ getUpdatesCalls' = 0
              /\ disconnectCalls' = 0
              /\ called' = {}
              /\ offset' = Unbound
              /\ storage' = storage
              /\ delivered' = delivered
              /\ bot_identifier' = bot_identifier
      ]_vars

\* a second run fails to authenticate while a cursor is stored
C7_Witness ==
    /\ result = "False"
    /\ runs = 2
    /\ Stored # Unbound
    /\ pc = "done"

\* C8: an update without text, or without a message, is never handed to
\* callback_message; its cursor id + 1 is stored; unless an interrupt
\* arrives, the loop goes on to the next update or the next getUpdates, and
\* the update is not gone through again; only a message that is None is
\* logged as an exception.
C8_NoTextDiscarded ==
    [][ /\ (pc \in {"check", "handle"} /\ ~HasText(batch[idx]))
              => /\ Stored = batch[idx].update_id + 1
                 /\ delivered' = delivered
                 /\ called' = called
                 /\ failed' # failed
                       => /\ pc = "handle"
                          /\ failed' = failed \cup {idx}
                          /\ processed' = processed + 1
                 /\ \/ /\ pc = "check"
                       /\ HasMessage(batch[idx])
                       /\ pc' = "handle"
                       /\ idx' = idx
                    \/ /\ pc' = IF idx < Len(batch) THEN "advance" ELSE "fetch"
                       /\ processed' = processed + 1
                       /\ raised' = NoException
                    \/ /\ pc' = "finally"
                       /\ raised'.exc = "KeyboardInterrupt"
        /\ \A i \in called' : HasText(batch'[i])
      ]_vars

\* a batch of one message without text and one update without a message has
\* been iterated over: nothing was dispatched, the cursor is stored
C8_Witness ==
    /\ BatchIterated
    /\ Len(batch) = 2
    /\ batch[1].kind = "notext"
    /\ batch[2].kind = "nomessage"
    /\ called = {}
    /\ failed = {}
    /\ Stored = batch[2].update_id + 1
    /\ \A i \in Ids : delivered[i] = 0

\* every value written to the stored cursor, and every value assigned to
\* the local offset once it is bound, is at least the value it replaces
CursorMonotonic ==
    /\ (Stored # Unbound) => Stored' >= Stored
    /\ (offset # Unbound /\ offset' # Unbound) => offset' >= offset
    /\ (offset' # Unbound /\ Stored' # Unbound) => Stored' <= offset'

\* C9, as the specification states it: the cursor never decreases, for
\* every batch getUpdates returns.
C9_MonotonicForEveryBatch == [][CursorMonotonic]_vars

\* C9, as the code has it: the cursor never decreases, within a run and
\* across runs that reload it, provided getUpdates returns only updates
\* with id >= the requested offset, in ascending id order.
C9_MonotonicForAscendingBatches ==
    [][IsAscending(batch') => CursorMonotonic]_vars

\* a second run is about to overwrite the cursor the first run stored, for
\* the second update of an ascending batch
C9_Witness ==
    /\ runs = 2
    /\ IsAscending(batch)
    /\ idx = 2
    /\ pc = "persist"
    /\ Stored # Unbound
    /\ offset > Stored

\* no update id has been handed to callback_message more than once
AtMostOnce == \A i \in Ids : delivered[i] <= 1

\* C10, as the specification states it: with a provider that returns only
\* updates with id >= the requested offset, no update id is passed to
\* callback_message more than once, over all runs sharing the storage.
C10_AtMostOnce == AtMostOnce

\* C10, as the code has it: the same, provided the provider also returns
\* every batch in strictly ascending id order.
C10_AtMostOnceAscending == providerOrdered => AtMostOnce

\* one update was delivered by an earlier run, a later one by the second run
C10_Witness ==
    /\ providerOrdered
    /\ runs = 2
    /\ getUpdatesCalls = 1
    /\ Len(batch) = 1
    /\ called = {1}
    /\ Cardinality({i \in Ids : delivered[i] = 1}) = 2

\* ---- lifecycle of one run ----

\* the state of the connection at position p of a run that has returned r
Phase(p, r) ==
    IF p \in {"connecting", "identify", "connect", "load"} THEN "Connecting"
    ELSE IF p \in LoopPcs THEN "Polling"
    ELSE IF p = "finally" THEN "Disconnecting"
    ELSE IF p = "done" /\ r = "False" THEN "Failed"
    ELSE "Disconnected"

\* what holds at every position of a run
LifecycleInv ==
    /\ connectCalls <= 1
    /\ disconnectCalls <= connectCalls
    /\ (getUpdatesCalls > 0 \/ called # {}) => connectCalls = 1
    /\ Phase(pc, result) = "Polling" =>
          connectCalls = 1 /\ disconnectCalls = 0
    /\ Phase(pc, result) = "Disconnecting" =>
          connectCalls = 1 /\ disconnectCalls = 0
    /\ Phase(pc, result) = "Failed" =>
          connectCalls = 0 /\ disconnectCalls = 0 /\ getUpdatesCalls = 0
    /\ (pc = "done" /\ result # "False") =>
          connectCalls = 1 /\ disconnectCalls = 1

\* what holds of every step of a run
LifecycleStep ==
    /\ connectCalls' = connectCalls + 1 =>
          /\ telegram = "Bot"
          /\ bot_identifier = Me
          /\ getUpdatesCalls = 0
          /\ called = {}
          /\ disconnectCalls = 0
    /\ Phase(pc', result') # Phase(pc, result) =>
          <<Phase(pc, result), Phase(pc', result')>> \in
              {<<"Disconnected", "Connecting">>, <<"Failed", "Connecting">>,
               <<"Connecting", "Polling">>, <<"Connecting", "Failed">>,
               <<"Polling", "Disconnecting">>,
               <<"Disconnecting", "Disconnected">>}

\* C16: in every run of serve_once connect_callback is called at most once,
\* and exactly once in a run that reaches the polling loop; it is called
\* only with the authentication done and the bot's identity stored, and
\* before the first getUpdates and the first callback_message;
\* disconnect_callback is never called before connect_callback; the run
\* goes through Connecting, Polling, Disconnecting in that order, or ends
\* in Failed from Connecting with neither callback called.
C16_LifecycleOrder == []LifecycleInv /\ [][LifecycleStep]_vars

\* a second run has connected, polled, handed a message to the host and
\* disconnected
C16_Witness ==
    /\ pc = "done"
    /\ runs = 2
    /\ result = "True"
    /\ connectCalls = 1
    /\ disconnectCalls = 1
    /\ getUpdatesCalls = 2
    /\ called # {}

\* the offset getUpdates is to be called with: what is stored, 0 if nothing
StoredOrZero == IF Key \in DOMAIN storage THEN storage[Key] ELSE 0

\* what holds of every step of a run: the in-memory cursor is bound at the
\* start of the loop and rebound only by line 222, and an empty batch
\* changes neither cursor
CursorStep ==
    /\ (offset' # offset /\ pc # "advance") =>
          \/ (pc = "load" /\ offset' = StoredOrZero)
          \/ (pc \in {"idle", "done"} /\ offset' = Unbound)
    /\ (pc = "fetch" /\ pc' = "fetch"
          /\ getUpdatesCalls' = getUpdatesCalls + 1) =>
          (offset' = offset /\ storage' = storage)

\* C17: every getUpdates call is made with the offset equal to the value
\* stored under '_telegram_updates_offset', or 0 when nothing is stored;
\* the in-memory cursor is bound once, at the start of the loop, and then
\* changed only by line 222; an empty batch leaves the in-memory and the
\* stored cursor unchanged.
C17_FetchUsesStoredCursor ==
    [](pc = "fetch" => offset = StoredOrZero) /\ [][CursorStep]_vars

\* a second run has loaded the stored cursor 2 and got an empty batch
C17_Witness ==
    /\ runs = 2
    /\ pc = "fetch"
    /\ getUpdatesCalls = 1
    /\ batch = << >>
    /\ offset = 2
    /\ Stored = 2

\* what holds of every step taken inside the polling loop
LoopStep ==
    pc \in LoopPcs =>
        /\ pc' \notin LoopPcs =>
              /\ pc' = "finally"
              /\ raised' # raised
              /\ \/ raised'.exc = "KeyboardInterrupt"
                 \/ (raised'.exc = "TelegramError" /\ pc = "fetch")
        /\ raised' = raised => pc' \in LoopPcs
        /\ (raised' = raised /\ batch' = << >>) => pc' = "fetch"
        /\ (raised' = raised /\ processed' = processed + 1
              /\ idx = Len(batch)) => pc' = "fetch"

\* C18: the polling loop is left only for the finally block, and only by a
\* KeyboardInterrupt or by an error raised outside the per-update handler
\* (a failure of getUpdates); a step of the loop that raises neither stays
\* in the loop, and the step that ends a batch (an empty batch, a last
\* update that is discarded, or one whose dispatch fails) leads back to the
\* getUpdates call.
C18_LoopEndsOnlyByInterruptOrError == [][LoopStep]_vars

\* after a batch of two updates whose dispatches both failed the loop is
\* back at getUpdates, with a fetch left to make
C18_Witness ==
    /\ pc = "fetch"
    /\ Len(batch) = 2
    /\ failed = {1, 2}
    /\ called = {1, 2}
    /\ getUpdatesCalls = 1
    /\ raised = NoException

====
